---- MODULE Spec2Model ----
(***************************************************************************)
(* A model of the macro recorder / codec / player of src/main.py.          *)
(*                                                                         *)
(*   SpecCodec   serialize_event / deserialize_event on one event          *)
(*   SpecRecord  a capture session: MacroRecorder, its two listener        *)
(*               threads, the Qt event queue and the Record tab            *)
(*   SpecPlay    the Play tab: play_macro, the countdown, begin_playback,  *)
(*               stop_macro and the playback worker threads                *)
(***************************************************************************)
EXTENDS Integers, Sequences, FiniteSets, TLC

VARIABLES
    \* ---- codec ----
    cpc,            \* "start" | "encoded" | "decoded"
    cev,            \* the event being saved
    cenc,           \* serialize_event(cev): the JSON object
    cdec            \* deserialize_event(cenc): a result (value or exception)

codecVars == <<cpc, cev, cenc, cdec>>

VARIABLES
    \* ---- MacroRecorder ----
    events,             \* self.events
    recording,          \* self.recording
    start_time,         \* self.start_time (None before the first session)
    hotkey_triggered,   \* self.hotkey_triggered
    on_stop,            \* self.on_stop is set
    keyboard_listener,  \* "none" | "running" | "stopped"
    mouse_listener,     \* "none" | "running" | "stopped"
    \* ---- the environment of a capture session ----
    now,                \* time.time()
    kbT,                \* the keyboard listener's callback thread
    msT,                \* the mouse listener's callback thread
    qt,                 \* callbacks posted to the Qt event loop (singleShot(0, ...))
    mpc,                \* where the Qt main thread is inside stop_recording
    \* ---- the Record tab ----
    start_button,       \* start_button.isEnabled()
    stop_button,        \* stop_button.isEnabled()
    countdown_active,   \* countdown_timer.isActive()
    countdown_value,    \* self.countdown_value
    ui_timer,           \* self.timer.isActive()
    \* ---- history of the current capture session ----
    session,            \* number of start_recording calls so far
    nTransitions,       \* recording True -> False transitions
    nListenerStops,     \* calls of keyboard_listener.stop() / mouse_listener.stop()
    nOnStopSched,       \* on_stop callbacks scheduled
    nOnStopDelivered,   \* on_stop callbacks run
    nStopRequests,      \* stop-key presses and Stop clicks
    stopReturnedLen,    \* len(events) when stop_recording returned, or None
    hook_failed,        \* the listener whose start() raised: "none" | "keyboard" | "mouse"
    move_observed,      \* the mouse listener saw the pointer move while recording
    nStoppedNotes       \* "Recording stopped ..." items added to event_list

recorderVars == <<events, recording, start_time, hotkey_triggered, on_stop,
                  keyboard_listener, mouse_listener>>
envVars      == <<now, kbT, msT, qt, mpc>>
recUiVars    == <<start_button, stop_button, countdown_active, countdown_value, ui_timer>>
recHistVars  == <<session, nTransitions, nListenerStops, nOnStopSched,
                  nOnStopDelivered, nStopRequests, stopReturnedLen, hook_failed,
                  move_observed, nStoppedNotes>>
recVars      == <<recorderVars, envVars, recUiVars, recHistVars>>

VARIABLES
    \* ---- the Play tab ----
    events_to_play,        \* self.events_to_play
    play_button,           \* play_button.isEnabled()
    stop_play_button,      \* stop_play_button.isEnabled()
    play_countdown_active, \* play_countdown_timer.isActive()
    play_countdown_value,  \* self.play_countdown_value
    worker,                \* self.worker: the MacroPlayerWorker, its MacroPlayer and thread
    thread_running,        \* self.thread is a QThread that is running
    finished_pending,      \* a finished signal is queued for the Qt main thread
    aborted,               \* the process was aborted (qFatal)
    \* ---- history of the Play tab ----
    loaded_file,           \* the file events_to_play was decoded from
    nBegin                 \* number of begin_playback calls so far

playVars == <<events_to_play, play_button, stop_play_button, play_countdown_active,
              play_countdown_value, worker, thread_running, finished_pending, aborted,
              loaded_file, nBegin>>

vars == <<codecVars, recVars, playVars>>

playVarsButAborted ==
    <<events_to_play, play_button, stop_play_button, play_countdown_active,
      play_countdown_value, worker, thread_running, finished_pending, loaded_file, nBegin>>

nonRecVars   == <<codecVars, playVars>>
nonCodecVars == <<recVars, playVars>>
nonPlayVars  == <<codecVars, recVars>>

(***************************************************************************)
(* Bounds of the model.                                                    *)
(***************************************************************************)
MaxTime  == 1       \* timestamps of codec events are 0..MaxTime
MaxCoord == 1       \* pointer coordinates and scroll deltas are 0..MaxCoord
MaxClock == 1       \* the clock of a capture session runs 0..MaxClock
MaxEvents == 2      \* callbacks are delivered while fewer events than this exist
MaxSessions == 1    \* capture sessions started
MaxStopRequests == 2 \* stop-key presses and Stop clicks counted per session

MaxRuns == 2        \* begin_playback calls
MaxElapsed == 1     \* the clock of a playback runs 0..MaxElapsed after its start

\* MainWindow.start_recording: self.countdown_value = 3
CountdownStart == 3
\* MainWindow.play_macro: self.play_countdown_value = 3
PlayCountdownStart == 3

(***************************************************************************)
(* Python values.  An optional value is <<>> (None) or <<v>>.              *)
(***************************************************************************)
None      == <<>>
Some(v)   == <<v>>
Ok(v)     == [ok |-> TRUE, val |-> v]
Raise(e)  == [ok |-> FALSE, exc |-> e]

\* pynput.keyboard.KeyCode(vk, char, is_dead)
KeyCode(vk, char, dead) == [cls |-> "KeyCode", vk |-> vk, char |-> char, is_dead |-> dead]
\* keyboard.KeyCode.from_char(c)
KeyCode_from_char(c) == KeyCode(None, Some(c), FALSE)
\* a member of the enum pynput.keyboard.Key
Key(name) == [cls |-> "Key", name |-> name]
\* the key a listener passes for a key it does not know: Python's None
NoneKey == [cls |-> "NoneType"]
\* a member of the enum pynput.mouse.Button
Button(name) == [cls |-> "Button", name |-> name]
\* an attribute of an enum class that is not one of its members (__doc__, ...)
ClassAttr(cls, name) == [cls |-> "attr", of |-> cls, name |-> name]

KeyMembers    == {"shift", "f1", "f12"}
ButtonMembers == {"left", "right"}
\* names getattr() finds on any enum class although they are no members
EnumClassAttrs == {"__doc__"}

\* str(key) of a KeyCode without char (pynput: '<%d>' % vk), of None
str_of_key(key) ==
    IF key.cls = "KeyCode" THEN "<" \o key.vk[1] \o ">" ELSE "None"

\* key == other (pynput KeyCode.__eq__; enum members and None by identity)
KeyEq(a, b) ==
    IF a.cls = "KeyCode" /\ b.cls = "KeyCode"
    THEN IF a.char # None /\ b.char # None
         THEN a.char = b.char /\ a.is_dead = b.is_dead
         ELSE a.vk = b.vk
    ELSE a = b

(***************************************************************************)
(* The codec (src/main.py 8-68).                                           *)
(***************************************************************************)
KeyTypes   == {"key_press", "key_release"}

\* hasattr(key, 'char'): only a KeyCode has the attribute
hasattr_char(key) == key.cls = "KeyCode"

serialize_key(key) ==
    IF hasattr_char(key) /\ key.char # None
    THEN [vtype |-> "KeyCode", char |-> key.char[1]]
    ELSE IF key.cls = "Key"
         THEN [vtype |-> "Key", name |-> key.name]
         ELSE \* key.name raises AttributeError
              [vtype |-> "str", value |-> str_of_key(key)]

\* d[k]: the value, or KeyError
GetItem(d, k) == IF k \in DOMAIN d THEN Ok(d[k]) ELSE Raise("KeyError")

\* getattr(keyboard.Key, name) / getattr(mouse.Button, name)
getattr_enum(cls, members, name) ==
    IF name \in members THEN Ok([cls |-> cls, name |-> name])
    ELSE IF name \in EnumClassAttrs THEN Ok(ClassAttr(cls, name))
    ELSE Raise("AttributeError")

deserialize_key(data) ==
    LET vt == GetItem(data, "vtype") IN
    IF ~vt.ok THEN vt
    ELSE IF vt.val = "KeyCode"
         THEN LET c == GetItem(data, "char") IN
              IF c.ok THEN Ok(KeyCode_from_char(c.val)) ELSE c
    ELSE IF vt.val = "Key"
         THEN LET n == GetItem(data, "name") IN
              IF n.ok THEN getattr_enum("Key", KeyMembers, n.val) ELSE n
    ELSE Ok(KeyCode_from_char(IF "value" \in DOMAIN data THEN data.value ELSE ""))

serialize_mouse_button(button) == button.name

deserialize_mouse_button(name) == getattr_enum("Button", ButtonMembers, name)

serialize_event(event) ==
    LET event_time == event[1]
        event_type == event[2]
        event_data == event[3]
    IN  [time |-> event_time, type |-> event_type, data |->
           IF event_type \in KeyTypes THEN serialize_key(event_data)
           ELSE IF event_type = "mouse_move"
                THEN [x |-> event_data[1], y |-> event_data[2]]
           ELSE IF event_type = "mouse_click"
                THEN [x |-> event_data[1], y |-> event_data[2],
                      button |-> serialize_mouse_button(event_data[3]),
                      pressed |-> event_data[4]]
           ELSE IF event_type = "mouse_scroll"
                THEN [x |-> event_data[1], y |-> event_data[2],
                      dx |-> event_data[3], dy |-> event_data[4]]
           ELSE event_data]

\* every d[k] for k in ks succeeds
HasAll(d, ks) == \A k \in ks : k \in DOMAIN d

deserialize_event(event_dict) ==
    IF ~HasAll(event_dict, {"time"}) THEN Raise("KeyError")
    ELSE IF ~HasAll(event_dict, {"type"}) THEN Raise("KeyError")
    ELSE IF ~HasAll(event_dict, {"data"}) THEN Raise("KeyError")
    ELSE
    LET event_time == event_dict.time
        event_type == event_dict.type
        data       == event_dict.data
    IN  IF event_type \in KeyTypes
        THEN LET key == deserialize_key(data) IN
             IF key.ok THEN Ok(<<event_time, event_type, key.val>>) ELSE key
        ELSE IF event_type = "mouse_move"
        THEN IF HasAll(data, {"x", "y"})
             THEN Ok(<<event_time, event_type, <<data.x, data.y>> >>)
             ELSE Raise("KeyError")
        ELSE IF event_type = "mouse_click"
        THEN LET b == GetItem(data, "button") IN
             IF ~b.ok THEN b
             ELSE LET button == deserialize_mouse_button(b.val) IN
                  IF ~button.ok THEN button
                  ELSE IF HasAll(data, {"x", "y", "pressed"})
                       THEN Ok(<<event_time, event_type,
                                 <<data.x, data.y, button.val, data.pressed>> >>)
                       ELSE Raise("KeyError")
        ELSE IF event_type = "mouse_scroll"
        THEN IF HasAll(data, {"x", "y", "dx", "dy"})
             THEN Ok(<<event_time, event_type, <<data.x, data.y, data.dx, data.dy>> >>)
             ELSE Raise("KeyError")
        ELSE Ok(<<event_time, event_type, data>>)

\* e1 == e2 for two (time, type, data) tuples of one of the five kinds
EventEq(e1, e2) ==
    /\ e1[1] = e2[1]
    /\ e1[2] = e2[2]
    /\ IF e1[2] \in KeyTypes THEN KeyEq(e1[3], e2[3]) ELSE e1[3] = e2[3]

(***************************************************************************)
(* The events a capture session can hand to the codec.                     *)
(***************************************************************************)
Coords == 0..MaxCoord

\* the keys a pynput listener delivers: characters (with or without a virtual
\* key code), keys that have only a virtual key code, dead keys, special keys,
\* and None for a key it does not know
ListenerKeys ==
    {KeyCode_from_char("a"), KeyCode(Some("65"), Some("a"), FALSE),
     KeyCode(Some("101"), None, FALSE), KeyCode(None, Some("~"), TRUE),
     NoneKey}
    \cup {Key(n) : n \in KeyMembers}

EventsOfKind(kind) ==
    IF kind \in KeyTypes THEN ListenerKeys
    ELSE IF kind = "mouse_move" THEN Coords \X Coords
    ELSE IF kind = "mouse_click"
         THEN {<<x, y, Button(b), p>> : x \in Coords, y \in Coords,
                                        b \in ButtonMembers, p \in BOOLEAN}
    ELSE {<<x, y, dx, dy>> : x \in Coords, y \in Coords, dx \in Coords, dy \in Coords}

SupportedKinds == {"key_press", "key_release", "mouse_move", "mouse_click", "mouse_scroll"}


(***************************************************************************)
(* A capture session (src/main.py 70-133, 281-325).                        *)
(***************************************************************************)
\* MacroRecorder.__init__: self.stop_hotkey = keyboard.Key.f12
stop_hotkey == Key("f12")

IdleThread == [pc |-> "idle", etype |-> "", edata |-> None, etime |-> 0]

\* MacroRecorder.__init__ and MainWindow.initUI
RecorderInit ==
    /\ events = <<>>
    /\ recording = FALSE
    /\ start_time = None
    /\ hotkey_triggered = FALSE
    /\ on_stop = FALSE
    /\ keyboard_listener = "none"
    /\ mouse_listener = "none"
    /\ now = 0
    /\ kbT = IdleThread
    /\ msT = IdleThread
    /\ qt = <<>>
    /\ mpc = "idle"
    /\ start_button = TRUE
    /\ stop_button = FALSE
    /\ countdown_active = FALSE
    /\ countdown_value = 0
    /\ ui_timer = FALSE
    /\ session = 0
    /\ nTransitions = 0
    /\ nListenerStops = 0
    /\ nOnStopSched = 0
    /\ nOnStopDelivered = 0
    /\ nStopRequests = 0
    /\ stopReturnedLen = None
    /\ hook_failed = "none"
    /\ move_observed = FALSE
    /\ nStoppedNotes = 0

\* events recorded or about to be appended by a callback thread
InFlight == (IF kbT.pc = "idle" THEN 0 ELSE 1) + (IF msT.pc = "idle" THEN 0 ELSE 1)

\* time.time() advances
Tick ==
    /\ UNCHANGED nonRecVars
    /\ ~aborted
    /\ now < MaxClock
    /\ now' = now + 1
    /\ UNCHANGED <<recorderVars, kbT, msT, qt, mpc, recUiVars, recHistVars>>

\* MainWindow.start_recording (the Start Recording button)
ClickStartRecording ==
    /\ UNCHANGED nonRecVars
    /\ ~aborted
    /\ mpc = "idle"
    /\ start_button
    /\ session < MaxSessions
    /\ start_button' = FALSE
    /\ stop_button' = FALSE
    /\ countdown_value' = CountdownStart
    /\ countdown_active' = TRUE
    /\ UNCHANGED <<recorderVars, envVars, ui_timer, recHistVars>>

\* MacroRecorder.start_recording lines 80-94 when start() of `failed` raises
\* ("none": both listeners start).  The four assignments of lines 80-83 and
\* the two listener objects of lines 85-92 precede the start() calls and no
\* handler undoes them.
start_recording(failed) ==
    /\ events' = <<>>
    /\ recording' = TRUE
    /\ start_time' = Some(now)
    /\ hotkey_triggered' = FALSE
    /\ keyboard_listener' = IF failed = "keyboard" THEN "created" ELSE "running"
    /\ mouse_listener' = IF failed = "none" THEN "running" ELSE "created"

\* MainWindow.update_countdown; on the last tick begin_recording and
\* MacroRecorder.start_recording.  A one-second timer started after the
\* callbacks in qt were posted with a zero timeout expires after them.
\* An exception of start_recording leaves begin_recording at line 302 and
\* the slot; PyQt then aborts the process or prints the traceback and goes on.
UpdateCountdown ==
    /\ UNCHANGED <<codecVars, playVarsButAborted>>
    /\ ~aborted
    /\ mpc = "idle"
    /\ countdown_active
    /\ qt = <<>>
    /\ countdown_value' = countdown_value - 1
    /\ IF countdown_value' > 0
       THEN UNCHANGED <<recorderVars, envVars, start_button, stop_button,
                        countdown_active, ui_timer, recHistVars, aborted>>
       ELSE /\ countdown_active' = FALSE
            \* begin_recording
            /\ on_stop' = TRUE
            /\ \E failed \in {"none", "keyboard", "mouse"} :
                 /\ start_recording(failed)
                 /\ hook_failed' = failed
                 /\ IF failed = "none"
                    THEN /\ stop_button' = TRUE
                         /\ ui_timer' = TRUE
                         /\ UNCHANGED aborted
                    ELSE /\ UNCHANGED <<stop_button, ui_timer>>
                         /\ aborted' \in BOOLEAN
            /\ session' = session + 1
            /\ nTransitions' = 0
            /\ nListenerStops' = 0
            /\ nOnStopSched' = 0
            /\ nOnStopDelivered' = 0
            /\ nStopRequests' = 0
            /\ stopReturnedLen' = None
            /\ move_observed' = FALSE
            /\ nStoppedNotes' = 0
            /\ UNCHANGED <<envVars, start_button>>

\* MacroRecorder.record_event lines 111-112 on a callback thread: the guard.
\* The thread that passes it goes on to read the clock.
record_event_guard(thread, event_type, event_data) ==
    IF ~recording
    THEN thread
    ELSE [pc |-> "time", etype |-> event_type, edata |-> event_data, etime |-> 0]

\* MacroRecorder.on_key_press, called by the keyboard listener's thread
OnKeyPress ==
    /\ UNCHANGED nonRecVars
    /\ ~aborted
    /\ keyboard_listener = "running"
    /\ kbT.pc = "idle"
    /\ \E key \in {KeyCode_from_char("a"), stop_hotkey} :
         IF KeyEq(key, stop_hotkey)
         THEN /\ nStopRequests < MaxStopRequests
              /\ nStopRequests' = nStopRequests + 1
              /\ IF ~hotkey_triggered
                 THEN /\ hotkey_triggered' = TRUE
                      \* QTimer.singleShot on the listener's thread: the callback
                      \* is run by the Qt event loop, or never, when the timer
                      \* belongs to a thread that runs no event loop
                      /\ \E posted \in BOOLEAN :
                           qt' = IF posted
                                 THEN Append(qt, "stop_recording_from_hotkey")
                                 ELSE qt
                 ELSE UNCHANGED <<hotkey_triggered, qt>>
              /\ UNCHANGED kbT
         ELSE /\ Len(events) + InFlight < MaxEvents
              /\ kbT' = record_event_guard(kbT, "key_press", key)
              /\ UNCHANGED <<hotkey_triggered, qt, nStopRequests>>
    /\ UNCHANGED <<events, recording, start_time, on_stop, keyboard_listener,
                   mouse_listener, now, msT, mpc, recUiVars, session, nTransitions,
                   nListenerStops, nOnStopSched, nOnStopDelivered, stopReturnedLen, hook_failed,
                   move_observed, nStoppedNotes>>

\* an on_key_release that lets every key through
release_of_stop_hotkey_unfiltered(key) == FALSE

\* MacroRecorder.on_key_release lines 125-126: if key == self.stop_hotkey: return
release_of_stop_hotkey(key) == KeyEq(key, stop_hotkey)

\* MacroRecorder.on_key_release
OnKeyRelease ==
    /\ UNCHANGED nonRecVars
    /\ ~aborted
    /\ keyboard_listener = "running"
    /\ kbT.pc = "idle"
    /\ Len(events) + InFlight < MaxEvents
    /\ \E key \in {KeyCode_from_char("a"), stop_hotkey} :
         IF release_of_stop_hotkey(key)
         THEN UNCHANGED kbT
         ELSE kbT' = record_event_guard(kbT, "key_release", key)
    /\ UNCHANGED <<recorderVars, now, msT, qt, mpc, recUiVars, recHistVars>>

\* MacroRecorder.on_click, called by the mouse listener's thread
OnClick ==
    /\ UNCHANGED nonRecVars
    /\ ~aborted
    /\ mouse_listener = "running"
    /\ msT.pc = "idle"
    /\ Len(events) + InFlight < MaxEvents
    /\ \E pressed \in {TRUE} :
         msT' = record_event_guard(msT, "mouse_click", <<0, 0, Button("left"), pressed>>)
    /\ UNCHANGED <<recorderVars, now, kbT, qt, mpc, recUiVars, recHistVars>>

\* MacroRecorder.on_scroll
OnScroll ==
    /\ UNCHANGED nonRecVars
    /\ ~aborted
    /\ mouse_listener = "running"
    /\ msT.pc = "idle"
    /\ Len(events) + InFlight < MaxEvents
    /\ msT' = record_event_guard(msT, "mouse_scroll", <<0, 0, 0, 1>>)
    /\ UNCHANGED <<recorderVars, now, kbT, qt, mpc, recUiVars, recHistVars>>

\* The pointer moves.  mouse.Listener is created at lines 89-92 with on_click
\* and on_scroll only, so its thread has no callback to run for a move.
OnMove ==
    /\ UNCHANGED nonRecVars
    /\ ~aborted
    /\ mouse_listener = "running"
    /\ msT.pc = "idle"
    /\ move_observed' = (move_observed \/ recording)
    /\ UNCHANGED <<recorderVars, envVars, recUiVars, session, nTransitions,
                   nListenerStops, nOnStopSched, nOnStopDelivered, nStopRequests,
                   stopReturnedLen, hook_failed, nStoppedNotes>>

\* record_event line 113: event_time = time.time() - self.start_time
record_event_time(thread) ==
    [thread EXCEPT !.pc = "append", !.etime = now - start_time[1]]

\* record_event line 114: self.events.append((event_time, event_type, event_data))
record_event_append(thread) ==
    Append(events, <<thread.etime, thread.etype, thread.edata>>)

KbReadTime ==
    /\ UNCHANGED nonRecVars
    /\ ~aborted
    /\ kbT.pc = "time"
    /\ kbT' = record_event_time(kbT)
    /\ UNCHANGED <<recorderVars, now, msT, qt, mpc, recUiVars, recHistVars>>

KbAppend ==
    /\ UNCHANGED nonRecVars
    /\ ~aborted
    /\ kbT.pc = "append"
    /\ events' = record_event_append(kbT)
    /\ kbT' = IdleThread
    /\ UNCHANGED <<recording, start_time, hotkey_triggered, on_stop, keyboard_listener,
                   mouse_listener, now, msT, qt, mpc, recUiVars, recHistVars>>

MsReadTime ==
    /\ UNCHANGED nonRecVars
    /\ ~aborted
    /\ msT.pc = "time"
    /\ msT' = record_event_time(msT)
    /\ UNCHANGED <<recorderVars, now, kbT, qt, mpc, recUiVars, recHistVars>>

MsAppend ==
    /\ UNCHANGED nonRecVars
    /\ ~aborted
    /\ msT.pc = "append"
    /\ events' = record_event_append(msT)
    /\ msT' = IdleThread
    /\ UNCHANGED <<recording, start_time, hotkey_triggered, on_stop, keyboard_listener,
                   mouse_listener, now, kbT, qt, mpc, recUiVars, recHistVars>>

\* a stop_recording that leaves the flag set
recording_after_stop_unset == TRUE

\* MacroRecorder.stop_recording line 99: self.recording = False
recording_after_stop == FALSE

\* MacroRecorder.stop_recording lines 97-99, entered by `caller`: returns at
\* once when not recording, else clears the flag and goes on to the listeners
stop_recording_enter(caller) ==
    IF ~recording
    THEN UNCHANGED <<recording, mpc, nTransitions>>
    ELSE /\ recording' = recording_after_stop
         /\ nTransitions' = IF recording' THEN nTransitions ELSE nTransitions + 1
         /\ mpc' = caller

\* MainWindow.stop_recording (the Stop Recording button) up to line 99 of
\* MacroRecorder.stop_recording
ClickStopRecording ==
    /\ UNCHANGED nonRecVars
    /\ ~aborted
    /\ mpc = "idle"
    /\ stop_button
    /\ nStopRequests < MaxStopRequests
    /\ nStopRequests' = nStopRequests + 1
    /\ IF ~recording
       THEN UNCHANGED <<recording, mpc, nTransitions, ui_timer>>
       ELSE /\ ui_timer' = FALSE
            /\ stop_recording_enter("stop_button")
    /\ UNCHANGED <<events, start_time, hotkey_triggered, on_stop, keyboard_listener,
                   mouse_listener, now, kbT, msT, qt, start_button, stop_button,
                   countdown_active, countdown_value, session, nListenerStops,
                   nOnStopSched, nOnStopDelivered, stopReturnedLen, hook_failed,
                   move_observed, nStoppedNotes>>

\* MacroRecorder.stop_recording_from_hotkey, run by the Qt event loop
QtStopFromHotkey ==
    /\ UNCHANGED nonRecVars
    /\ ~aborted
    /\ mpc = "idle"
    /\ qt # <<>>
    /\ Head(qt) = "stop_recording_from_hotkey"
    /\ qt' = Tail(qt)
    /\ IF recording
       THEN stop_recording_enter("stop_hotkey")
       ELSE UNCHANGED <<recording, mpc, nTransitions>>
    /\ UNCHANGED <<events, start_time, hotkey_triggered, on_stop, keyboard_listener,
                   mouse_listener, now, kbT, msT, recUiVars, session, nListenerStops,
                   nOnStopSched, nOnStopDelivered, nStopRequests, stopReturnedLen, hook_failed,
                  move_observed, nStoppedNotes>>

\* MacroRecorder.stop_recording lines 100-104, then the rest of the caller
\* (MainWindow.stop_recording lines 316-318 after a click)
StopRecordingFinish ==
    /\ UNCHANGED nonRecVars
    /\ ~aborted
    /\ mpc \in {"stop_button", "stop_hotkey"}
    /\ keyboard_listener' = "stopped"
    /\ mouse_listener' = "stopped"
    /\ nListenerStops' = nListenerStops + 1
    /\ IF on_stop
       THEN /\ qt' = Append(qt, "on_stop")
            /\ nOnStopSched' = nOnStopSched + 1
       ELSE UNCHANGED <<qt, nOnStopSched>>
    /\ stopReturnedLen' = Some(Len(events))
    /\ IF mpc = "stop_button"
       THEN /\ start_button' = TRUE
            /\ stop_button' = FALSE
            \* line 318: "Recording stopped. Total events: ..."
            /\ nStoppedNotes' = nStoppedNotes + 1
       ELSE UNCHANGED <<start_button, stop_button, nStoppedNotes>>
    /\ mpc' = "idle"
    /\ UNCHANGED <<events, recording, start_time, hotkey_triggered, on_stop, now, kbT,
                   msT, countdown_active, countdown_value, ui_timer, session,
                   nTransitions, nOnStopDelivered, nStopRequests, hook_failed,
                   move_observed >>

\* the lambda of line 103 run by the Qt event loop: MainWindow.on_recording_stopped
QtOnStop ==
    /\ UNCHANGED nonRecVars
    /\ ~aborted
    /\ mpc = "idle"
    /\ qt # <<>>
    /\ Head(qt) = "on_stop"
    /\ qt' = Tail(qt)
    /\ ui_timer' = FALSE
    /\ start_button' = TRUE
    /\ stop_button' = FALSE
    /\ nOnStopDelivered' = nOnStopDelivered + 1
    \* line 325: "Recording stopped (hotkey). Total events: ..."
    /\ nStoppedNotes' = nStoppedNotes + 1
    /\ UNCHANGED <<recorderVars, now, kbT, msT, mpc, countdown_active, countdown_value,
                   session, nTransitions, nListenerStops, nOnStopSched, nStopRequests,
                   stopReturnedLen, hook_failed,
                   move_observed>>

NextRecord ==
    \/ Tick
    \/ ClickStartRecording
    \/ UpdateCountdown
    \/ OnKeyPress
    \/ OnKeyRelease
    \/ OnClick
    \/ OnScroll
    \/ OnMove
    \/ KbReadTime
    \/ KbAppend
    \/ MsReadTime
    \/ MsAppend
    \/ ClickStopRecording
    \/ QtStopFromHotkey
    \/ StopRecordingFinish
    \/ QtOnStop


(***************************************************************************)
(* Playback (src/main.py 135-192, 350-413).                                *)
(***************************************************************************)
\* The macro files of the macros folder, as json.load returns them.
GoodFile1 ==
    << [time |-> 0, type |-> "key_press",   data |-> [vtype |-> "KeyCode", char |-> "a"]],
       [time |-> 0, type |-> "mouse_click",
        data |-> [x |-> 0, y |-> 1, button |-> "left", pressed |-> TRUE]],
       [time |-> 1, type |-> "mouse_move",  data |-> [x |-> 1, y |-> 1]],
       [time |-> 1, type |-> "key_release", data |-> [vtype |-> "KeyCode", char |-> "a"]] >>

GoodFile2 ==
    << [time |-> 0, type |-> "mouse_scroll", data |-> [x |-> 0, y |-> 0, dx |-> 0, dy |-> 1]],
       [time |-> 1, type |-> "key_press",    data |-> [vtype |-> "Key", name |-> "shift"]] >>

\* the second event has no "type"
NoTypeFile ==
    << [time |-> 0, type |-> "key_press", data |-> [vtype |-> "KeyCode", char |-> "a"]],
       [time |-> 1, data |-> [vtype |-> "KeyCode", char |-> "a"]] >>

\* a key name that keyboard.Key does not have at all
UnknownKeyFile ==
    << [time |-> 0, type |-> "key_press", data |-> [vtype |-> "Key", name |-> "hyper"]],
       [time |-> 1, type |-> "key_press", data |-> [vtype |-> "KeyCode", char |-> "a"]] >>

\* a key name that is an attribute of the class keyboard.Key but no key
ClassAttrKeyFile ==
    << [time |-> 0, type |-> "key_press", data |-> [vtype |-> "Key", name |-> "__doc__"]],
       [time |-> 1, type |-> "key_press", data |-> [vtype |-> "KeyCode", char |-> "a"]] >>

\* a fallback-string key without its "value"
NoValueFile ==
    << [time |-> 0, type |-> "key_press", data |-> [vtype |-> "str"]] >>

\* a click without its "button"
NoButtonFile ==
    << [time |-> 0, type |-> "mouse_click", data |-> [x |-> 0, y |-> 0, pressed |-> TRUE]] >>

\* an event of a kind this program does not know between two it knows
UnknownTypeFile ==
    << [time |-> 0, type |-> "key_press",   data |-> [vtype |-> "KeyCode", char |-> "a"]],
       [time |-> 0, type |-> "touch_tap",   data |-> [x |-> 1, y |-> 1]],
       [time |-> 1, type |-> "key_release", data |-> [vtype |-> "KeyCode", char |-> "a"]] >>

\* an event of an unknown kind that has no "data"
UnknownTypeNoDataFile ==
    << [time |-> 0, type |-> "key_press", data |-> [vtype |-> "KeyCode", char |-> "a"]],
       [time |-> 1, type |-> "marker"] >>

Files == << GoodFile1, GoodFile2, NoTypeFile, UnknownKeyFile, ClassAttrKeyFile,
            NoValueFile, NoButtonFile, UnknownTypeFile, UnknownTypeNoDataFile >>

FileIds == 1..Len(Files)

\* play_macro line 360: [deserialize_event(e) for e in json_events], or the
\* first exception
load_events(json_events) ==
    LET decoded == [k \in 1..Len(json_events) |-> deserialize_event(json_events[k])] IN
    IF \A k \in 1..Len(json_events) : decoded[k].ok
    THEN Ok([k \in 1..Len(json_events) |-> decoded[k].val])
    ELSE Raise("Exception")

NoWorker ==
    [exists |-> FALSE, file |-> 0, events |-> <<>>, player |-> FALSE, stop |-> FALSE,
     pc |-> "none", i |-> 0, synth |-> <<>>, nEmitted |-> 0, stopAt |-> None,
     elapsed |-> 0, slept |-> None, stopReq |-> None]

\* MacroPlayerWorker.__init__: self.events = events, self.player = None
NewWorker(evs, file) ==
    [exists |-> TRUE, file |-> file, events |-> evs, player |-> FALSE, stop |-> FALSE,
     pc |-> "started", i |-> 0, synth |-> <<>>, nEmitted |-> 0, stopAt |-> None,
     elapsed |-> 0, slept |-> None, stopReq |-> None]

PlayInit ==
    /\ events_to_play = <<>>
    /\ play_button = TRUE
    /\ stop_play_button = FALSE
    /\ play_countdown_active = FALSE
    /\ play_countdown_value = 0
    /\ worker = NoWorker
    /\ thread_running = FALSE
    /\ finished_pending = FALSE
    /\ aborted = FALSE
    /\ loaded_file = 0
    /\ nBegin = 0

\* MainWindow.play_macro, from the Play Macro button or the F9 shortcut
PlayMacro ==
    /\ UNCHANGED nonPlayVars
    /\ ~aborted
    /\ nBegin < MaxRuns
    /\ \E via \in {"button", "F9"}, f \in FileIds :
         /\ via = "button" => play_button
         /\ LET loaded == load_events(Files[f]) IN
            IF ~loaded.ok
            THEN \* "Failed to load macro": return
                 UNCHANGED <<events_to_play, play_button, play_countdown_active,
                             play_countdown_value, loaded_file>>
            ELSE /\ events_to_play' = loaded.val
                 /\ loaded_file' = f
                 /\ play_button' = FALSE
                 /\ play_countdown_value' = PlayCountdownStart
                 /\ play_countdown_active' = TRUE
    /\ UNCHANGED <<stop_play_button, worker, thread_running, finished_pending,
                   aborted, nBegin>>

\* MainWindow.update_play_countdown; on the last tick begin_playback.
\* begin_playback drops the previous QThread object: destroying a QThread
\* that is still running aborts the process.
UpdatePlayCountdown ==
    /\ UNCHANGED nonPlayVars
    /\ ~aborted
    /\ play_countdown_active
    /\ play_countdown_value' = play_countdown_value - 1
    /\ IF play_countdown_value' > 0
       THEN UNCHANGED <<play_countdown_active, worker, thread_running,
                        stop_play_button, aborted, nBegin>>
       ELSE /\ play_countdown_active' = FALSE
            /\ nBegin' = nBegin + 1
            /\ IF thread_running
               THEN /\ aborted' = TRUE
                    /\ UNCHANGED <<worker, thread_running, stop_play_button>>
               ELSE /\ worker' = NewWorker(events_to_play, loaded_file)
                    /\ thread_running' = TRUE
                    /\ stop_play_button' = TRUE
                    /\ UNCHANGED aborted
    /\ UNCHANGED <<events_to_play, play_button, finished_pending, loaded_file>>

\* MacroPlayerWorker.stop, called by the Qt main thread
worker_stop(w) ==
    IF w.player
    THEN [w EXCEPT !.stop = TRUE,
                   !.stopAt = IF w.stopAt = None
                              THEN Some([i |-> w.i, pc |-> w.pc, nsynth |-> Len(w.synth)])
                              ELSE w.stopAt]
    ELSE w

\* the worker's thread was started (begin_playback line 395) and run() has
\* not returned
RunInProgress(w) == w.pc \in {"started", "top", "wait", "check", "synth", "emit"}

\* MainWindow.stop_macro, from the Stop Macro button or the F8 shortcut.
\* worker.stopReq keeps the number of synthesis calls issued when stop_macro
\* first reached the worker of a run in progress.
StopMacro ==
    /\ UNCHANGED nonPlayVars
    /\ ~aborted
    /\ \E via \in {"button", "F8"} : via = "button" => stop_play_button
    /\ IF play_countdown_active
       THEN /\ play_countdown_active' = FALSE
            /\ play_button' = TRUE
            /\ UNCHANGED <<worker, stop_play_button>>
       ELSE IF worker.exists
            THEN /\ worker' = [worker_stop(worker) EXCEPT
                                  !.stopReq = IF worker.stopReq = None /\ RunInProgress(worker)
                                              THEN Some(Len(worker.synth))
                                              ELSE worker.stopReq]
                 /\ stop_play_button' = FALSE
                 /\ UNCHANGED <<play_countdown_active, play_button>>
            ELSE UNCHANGED <<worker, stop_play_button, play_countdown_active, play_button>>
    /\ UNCHANGED <<events_to_play, play_countdown_value, thread_running,
                   finished_pending, aborted, loaded_file, nBegin>>

WorkerStep(w) ==
    /\ UNCHANGED nonPlayVars
    /\ ~aborted
    /\ worker' = w
    /\ UNCHANGED <<events_to_play, play_button, stop_play_button, play_countdown_active,
                   play_countdown_value, thread_running, finished_pending, aborted,
                   loaded_file, nBegin>>

\* MacroPlayerWorker.run line 185: self.player = MacroPlayer(self.events),
\* and MacroPlayer.play line 143: start_time = time.time().
\* worker.elapsed is time.time() - start_time.
WorkerRun ==
    /\ worker.pc = "started"
    /\ WorkerStep([worker EXCEPT !.player = TRUE, !.stop = FALSE, !.pc = "top", !.i = 1,
                                 !.elapsed = 0])

\* time.time() advances while play() runs
PlayTick ==
    /\ worker.pc \in {"top", "wait", "check", "synth"}
    /\ worker.elapsed < MaxElapsed
    /\ WorkerStep([worker EXCEPT !.elapsed = worker.elapsed + 1])

\* MacroPlayer.play lines 144-146: the next event of the loop, or its end
PlayLoopTop ==
    /\ worker.pc = "top"
    /\ WorkerStep([worker EXCEPT !.pc = IF worker.i > Len(worker.events) \/ worker.stop
                                         THEN "emit" ELSE "wait"])

\* a play() that never sleeps
elapsed_without_sleep(elapsed, time_to_wait) == {elapsed}

\* MacroPlayer.play lines 150-151: the values of time.time() - start_time
\* after `if time_to_wait > 0: time.sleep(time_to_wait)`; a sleep lasts at
\* least the time asked for
elapsed_after_sleep(elapsed, time_to_wait) ==
    IF time_to_wait > 0
    THEN {e \in 0..MaxElapsed : e >= elapsed + time_to_wait}
    ELSE {elapsed}

\* MacroPlayer.play lines 148-151: the wait before the event
PlayWait ==
    /\ worker.pc = "wait"
    /\ LET event_time   == worker.events[worker.i][1]
           time_to_wait == event_time - worker.elapsed
       IN  \E e \in elapsed_after_sleep(worker.elapsed, time_to_wait) :
              WorkerStep([worker EXCEPT !.pc = "check", !.elapsed = e,
                                        !.slept = IF time_to_wait > 0
                                                  THEN Some(time_to_wait) ELSE None])

\* a play() without the check after the wait
after_wait_no_check(stop) == "synth"

\* MacroPlayer.play lines 152-153: if self._stop: break
after_wait_check(stop) == IF stop THEN "emit" ELSE "synth"

PlayCheck ==
    /\ worker.pc = "check"
    /\ WorkerStep([worker EXCEPT !.pc = after_wait_check(worker.stop)])

\* a play() that also replays pointer moves
synthesis_call_with_move(event) ==
    IF event[2] = "key_press" THEN Some("keyboard.press")
    ELSE IF event[2] = "key_release" THEN Some("keyboard.release")
    ELSE IF event[2] = "mouse_click"
         THEN Some(IF event[3][4] THEN "mouse.press" ELSE "mouse.release")
    ELSE IF event[2] = "mouse_scroll" THEN Some("mouse.scroll")
    ELSE IF event[2] = "mouse_move" THEN Some("mouse.position")
    ELSE None

\* a play() whose last branch takes every other event for a key press
synthesis_call_else_press(event) ==
    IF event[2] = "key_press" THEN Some("keyboard.press")
    ELSE IF event[2] = "key_release" THEN Some("keyboard.release")
    ELSE IF event[2] = "mouse_click"
         THEN Some(IF event[3][4] THEN "mouse.press" ELSE "mouse.release")
    ELSE IF event[2] = "mouse_scroll" THEN Some("mouse.scroll")
    ELSE IF event[2] = "mouse_move" THEN None
    ELSE Some("keyboard.press")

\* the synthesis call MacroPlayer.play makes for an event, or None
synthesis_call(event) ==
    IF event[2] = "key_press" THEN Some("keyboard.press")
    ELSE IF event[2] = "key_release" THEN Some("keyboard.release")
    ELSE IF event[2] = "mouse_click"
         THEN Some(IF event[3][4] THEN "mouse.press" ELSE "mouse.release")
    ELSE IF event[2] = "mouse_scroll" THEN Some("mouse.scroll")
    ELSE None

\* the exception of a synthesis call is caught (lines 156-164: key events only)
exception_caught(event) == event[2] \in KeyTypes

\* a controller call with something that is no key or button always raises
must_raise(event) ==
    \/ event[2] \in KeyTypes /\ event[3].cls \notin {"KeyCode", "Key"}
    \/ event[2] = "mouse_click" /\ event[3][3].cls # "Button"

\* MacroPlayer.play lines 155-173: the synthesis call of the event, which may raise
PlaySynth ==
    /\ worker.pc = "synth"
    /\ LET event == worker.events[worker.i]
           call  == synthesis_call(event)
       IN  IF call = None
           THEN WorkerStep([worker EXCEPT !.pc = "top", !.i = worker.i + 1])
           ELSE \E raises \in BOOLEAN :
                  /\ must_raise(event) => raises
                  /\ LET issued == Append(worker.synth, [idx |-> worker.i, call |-> call[1]])
                     IN  IF raises /\ ~exception_caught(event)
                         THEN /\ worker' = [worker EXCEPT !.synth = issued, !.pc = "crashed"]
                              \* an exception that leaves a slot: PyQt5 >= 5.5 aborts
                              \* the process, earlier versions print it and go on
                              /\ aborted' \in BOOLEAN
                              /\ ~aborted
                              /\ UNCHANGED nonPlayVars
                              /\ UNCHANGED <<events_to_play, play_button, stop_play_button,
                                             play_countdown_active, play_countdown_value,
                                             thread_running, finished_pending, loaded_file,
                                             nBegin>>
                         ELSE WorkerStep([worker EXCEPT !.synth = issued, !.pc = "top",
                                                        !.i = worker.i + 1])

\* MacroPlayerWorker.run line 187: self.finished.emit()
WorkerEmit ==
    /\ worker.pc = "emit"
    /\ ~aborted
    /\ worker' = [worker EXCEPT !.pc = "done", !.nEmitted = worker.nEmitted + 1]
    /\ finished_pending' = TRUE
    /\ UNCHANGED nonPlayVars
    /\ UNCHANGED <<events_to_play, play_button, stop_play_button, play_countdown_active,
                   play_countdown_value, thread_running, aborted, loaded_file,
                   nBegin>>

\* the slots connected to worker.finished, run by the Qt main thread:
\* on_macro_play_finished, thread.quit, worker.deleteLater
OnMacroPlayFinished ==
    /\ UNCHANGED nonPlayVars
    /\ ~aborted
    /\ finished_pending
    /\ finished_pending' = FALSE
    /\ play_button' = TRUE
    /\ stop_play_button' = FALSE
    /\ thread_running' = FALSE
    /\ UNCHANGED <<events_to_play, play_countdown_active, play_countdown_value, worker,
                   aborted, loaded_file, nBegin>>

NextPlay ==
    \/ PlayMacro
    \/ UpdatePlayCountdown
    \/ StopMacro
    \/ WorkerRun
    \/ PlayTick
    \/ PlayLoopTop
    \/ PlayWait
    \/ PlayCheck
    \/ PlaySynth
    \/ WorkerEmit
    \/ OnMacroPlayFinished

CodecIdle ==
    /\ cpc = "idle"
    /\ cev = None
    /\ cenc = None
    /\ cdec = None

CodecInit ==
    /\ RecorderInit
    /\ PlayInit
    /\ cpc = "start"
    /\ \E t \in 0..MaxTime, kind \in SupportedKinds :
         \E d \in EventsOfKind(kind) : cev = <<t, kind, d>>
    /\ cenc = None
    /\ cdec = None

\* save_macro line 343: json_events = [serialize_event(e) ...]
SaveEvent ==
    /\ cpc = "start"
    /\ cenc' = serialize_event(cev)
    /\ cpc' = "encoded"
    /\ UNCHANGED <<cev, cdec, nonCodecVars>>

\* play_macro line 360: [deserialize_event(e) for e in json_events]
LoadEvent ==
    /\ cpc = "encoded"
    /\ cdec' = deserialize_event(cenc)
    /\ cpc' = "decoded"
    /\ UNCHANGED <<cev, cenc, nonCodecVars>>

NextCodec == SaveEvent \/ LoadEvent

SpecCodec == CodecInit /\ [][NextCodec]_vars

\* the application after MainWindow.__init__
Init ==
    /\ CodecIdle
    /\ RecorderInit
    /\ PlayInit

SpecRecord == Init /\ [][NextRecord]_vars

SpecPlay == Init /\ [][NextPlay]_vars

(***************************************************************************)
(* Playback properties.                                                    *)
(***************************************************************************)
IsPrefix(a, b) == Len(a) <= Len(b) /\ SubSeq(b, 1, Len(a)) = a

\* the synthesis calls a complete run over evs issues: one per key_press,
\* key_release, mouse_click and mouse_scroll event, in sequence order
ExpectedCalls(evs) ==
    LET idxs == SelectSeq([k \in 1..Len(evs) |-> k],
                          LAMBDA k : synthesis_call(evs[k]) # None)
    IN  [j \in 1..Len(idxs) |-> [idx |-> idxs[j], call |-> synthesis_call(evs[idxs[j]])[1]]]

\* C1 as stated: once cancellation is requested after some event has been
\* synthesized, no event that was not yet synthesized is synthesized, and the events before the current one were
\* (those that have a synthesis call).
C1_CancellationBoundary ==
    (worker.stopAt # None /\ worker.stopAt[1].nsynth >= 1) =>
        LET s == worker.stopAt[1]
            expected == ExpectedCalls(worker.events)
        IN  /\ Len(worker.synth) = s.nsynth
            /\ \A k \in 1..Len(expected) : expected[k].idx < s.i => k <= Len(worker.synth)

\* C1 amended: a cancellation requested before playback has made the check
\* that follows the wait for event i+1 keeps events i+1..n from being
\* synthesized; one requested after that check and before the synthesis
\* call lets event i+1, and no later event, be synthesized.  In both cases
\* the events before were synthesized, in order.
C1_CancellationAtCheck ==
    worker.stopAt # None =>
        LET s == worker.stopAt[1]
            expected == ExpectedCalls(worker.events)
        IN  /\ IsPrefix(worker.synth, expected)
            /\ \A k \in (s.nsynth + 1)..Len(worker.synth) :
                  s.pc = "synth" /\ worker.synth[k].idx = s.i
            /\ \A k \in 1..Len(expected) : expected[k].idx < s.i => k <= Len(worker.synth)

\* a run cancelled before the check of an event, after at least one synthesis
\* call and with synthesizable events left, that has ended
C1_Witness ==
    /\ worker.stopAt # None
    /\ worker.stopAt[1].pc \in {"top", "wait", "check"}
    /\ worker.stopAt[1].nsynth >= 1
    /\ \E k \in 1..Len(worker.events) :
          k >= worker.stopAt[1].i /\ synthesis_call(worker.events[k]) # None
    /\ worker.pc = "done"
    /\ Len(worker.synth) = worker.stopAt[1].nsynth

\* C3: the synthesis calls of a run are issued in sequence order, and a run
\* that has ended without being cancelled has issued exactly the calls of
\* its key_press, key_release, mouse_click and mouse_scroll events.
C3_OrderAndCompleteness ==
    worker.exists =>
        /\ IsPrefix(worker.synth, ExpectedCalls(worker.events))
        /\ (worker.pc \in {"emit", "done", "crashed"} /\ worker.stopAt = None)
              => worker.synth = ExpectedCalls(worker.events)

\* C7: no synthesis call that raises ends the run: play() is never left by
\* an exception.
C7_SynthesisErrorsNonFatal ==
    worker.pc # "crashed"

\* an event of a macro file is malformed: a required field is absent, or
\* its key or button name is not one of the enum's members
KeyDataMalformed(data) ==
    \/ "vtype" \notin DOMAIN data
    \/ data.vtype = "KeyCode" /\ "char" \notin DOMAIN data
    \/ data.vtype = "Key" /\ ("name" \notin DOMAIN data \/ data.name \notin KeyMembers)
    \/ data.vtype = "str" /\ "value" \notin DOMAIN data

EventMalformed(d) ==
    \/ ~HasAll(d, {"time", "type", "data"})
    \/ d.type \in KeyTypes /\ KeyDataMalformed(d.data)
    \/ d.type = "mouse_move" /\ ~HasAll(d.data, {"x", "y"})
    \/ d.type = "mouse_click" /\ (\/ ~HasAll(d.data, {"x", "y", "button", "pressed"})
                                  \/ d.data.button \notin ButtonMembers)
    \/ d.type = "mouse_scroll" /\ ~HasAll(d.data, {"x", "y", "dx", "dy"})

Malformed(file) == \E k \in 1..Len(file) : EventMalformed(file[k])

\* C8: a malformed macro never gets as far as a countdown or a playback:
\* neither events_to_play nor a worker's events come from a malformed file.
C8_MalformedNeverPlays ==
    /\ loaded_file # 0 => ~Malformed(Files[loaded_file])
    /\ worker.exists => ~Malformed(Files[worker.file])

\* the previous playback, if any, has left play() or has been cancelled
PreviousEnded ==
    \/ ~worker.exists
    \/ worker.pc \in {"emit", "done", "crashed"}
    \/ worker.stop

\* C9: begin_playback runs only when the previous playback has ended or
\* been cancelled.
C9_StartOnlyWhenPreviousEnded ==
    [][nBegin' # nBegin => PreviousEnded]_vars

\* C10: a run that has ended has emitted finished exactly once, and no run
\* emits it twice.
C10_EndedRunEmittedOnce ==
    /\ worker.nEmitted <= 1
    /\ worker.pc \in {"done", "crashed"} => worker.nEmitted = 1

\* C4: the recorded sequence has non-decreasing timestamps in every reachable
\* state, whatever the interleaving of the two listener threads.
C4_NonDecreasingTimestamps ==
    \A i \in 1..(Len(events) - 1) : events[i][1] <= events[i + 1][1]

\* C5: nothing is appended before the first start_recording, and once
\* stop_recording has returned the sequence has the length it had then.
C5_NoAppendOutsideSession ==
    /\ session = 0 => events = <<>>
    /\ stopReturnedLen # None => Len(events) = stopReturnedLen[1]

C11_FailedStartLeavesNoState ==
    hook_failed # "none" =>
        /\ ~recording
        /\ keyboard_listener # "running"
        /\ mouse_listener # "running"

\* C12: no key_press or key_release event of the stop key (F12) is ever in
\* the captured sequence, nor on its way into it on the keyboard thread.
C12_StopKeyNeverRecorded ==
    /\ \A k \in 1..Len(events) :
         events[k][2] \in KeyTypes => ~KeyEq(events[k][3], stop_hotkey)
    /\ kbT.pc # "idle" => ~KeyEq(kbT.edata, stop_hotkey)

\* the stop key was pressed in a session that recorded a press and a release
C12_Witness ==
    /\ hotkey_triggered
    /\ \E k \in 1..Len(events) : events[k][2] = "key_press"
    /\ \E k \in 1..Len(events) : events[k][2] = "key_release"

\* the calls of pynput's mouse controller that place the pointer
PointerPositionCalls == {"mouse.position", "mouse.move"}

\* C13: playback issues no call that places the pointer, and issues no call
\* at all for a mouse_move event; clicks and scrolls are press, release and
\* scroll calls only.
C13_NoPointerMove ==
    \A k \in 1..Len(worker.synth) :
        /\ worker.synth[k].call \notin PointerPositionCalls
        /\ worker.events[worker.synth[k].idx][2] # "mouse_move"
        /\ worker.events[worker.synth[k].idx][2] = "mouse_click"
               => worker.synth[k].call \in {"mouse.press", "mouse.release"}
        /\ worker.events[worker.synth[k].idx][2] = "mouse_scroll"
               => worker.synth[k].call = "mouse.scroll"

\* a run over a sequence with a click, a pointer move and key events ended
\* uncancelled: the move was passed over, the events around it were synthesized
C13_Witness ==
    /\ worker.pc = "done"
    /\ ~worker.stop
    /\ \E k \in 1..Len(worker.events) : worker.events[k][2] = "mouse_move"
    /\ \E k \in 1..Len(worker.synth) : worker.synth[k].call = "mouse.press"
    /\ worker.synth[Len(worker.synth)].idx = Len(worker.events)

\* C14: a key of any of the three encoded cases (character, key name,
\* fallback string) is decoded by deserialize_key to the key that
\* serialize_key was given.
C14_KeyRoundTrip ==
    (cpc \in {"encoded", "decoded"} /\ cev[2] \in KeyTypes) =>
        LET back == deserialize_key(cenc.data) IN
        /\ cenc.data = serialize_key(cev[3])
        /\ back.ok
        /\ KeyEq(back.val, cev[3])

\* the positions of a macro file whose type is none of the five kinds
UnknownAt(file) ==
    {k \in 1..Len(file) : "type" \in DOMAIN file[k] /\ file[k].type \notin SupportedKinds}

\* the kinds MacroPlayer.play has a synthesis call for
SynthesizedKinds == {"key_press", "key_release", "mouse_click", "mouse_scroll"}

\* C15: a macro file with events of unknown type crashes neither the loader
\* nor the player: it is refused as a whole (a reported load failure) or
\* loaded with every event in place; playback issues no call for an event of
\* unknown type, is not ended by one, and a run that ends uncancelled has
\* issued the calls of all its events of the known kinds.
C15_UnknownTypeTolerated ==
    /\ (loaded_file # 0 /\ UnknownAt(Files[loaded_file]) # {}) =>
          /\ Len(events_to_play) = Len(Files[loaded_file])
          /\ \A k \in 1..Len(events_to_play) :
                /\ events_to_play[k][1] = Files[loaded_file][k].time
                /\ events_to_play[k][2] = Files[loaded_file][k].type
    /\ (worker.exists /\ UnknownAt(Files[worker.file]) # {}) =>
          /\ \A k \in 1..Len(worker.synth) :
                worker.synth[k].idx \notin UnknownAt(Files[worker.file])
          /\ worker.pc = "crashed" => worker.i \notin UnknownAt(Files[worker.file])
          /\ (worker.pc \in {"emit", "done"} /\ worker.stopAt = None) =>
                {worker.synth[k].idx : k \in 1..Len(worker.synth)}
                  = {k \in 1..Len(worker.events) : worker.events[k][2] \in SynthesizedKinds}

\* a run over a file with an event of unknown type between two key events
\* ended uncancelled, with the calls of the events before and after it issued
C15_Witness ==
    /\ worker.pc = "done"
    /\ worker.stopAt = None
    /\ \E u \in UnknownAt(Files[worker.file]) :
          /\ \E k \in 1..Len(worker.synth) : worker.synth[k].idx = u - 1
          /\ \E k \in 1..Len(worker.synth) : worker.synth[k].idx = u + 1

\* C16 (pointer moves): a pointer move observed by the mouse listener while
\* the session is recording becomes a mouse_move event of the sequence, or
\* is on its way into it on the listener's thread.
C16_MoveRecorded ==
    move_observed =>
        \/ \E k \in 1..Len(events) : events[k][2] = "mouse_move"
        \/ msT.pc # "idle" /\ msT.etype = "mouse_move"

\* C17: a synthesis call for an event is issued only when the time elapsed
\* since the start of play() is at least the event's timestamp; the wait
\* before it sleeps for timestamp - elapsed when that is positive, and for
\* at least that long, and does not sleep otherwise.
C17_NoEarlySynthesis ==
    [][ /\ Len(worker'.synth) > Len(worker.synth)
           => worker.elapsed >= worker.events[worker.i][1]
        /\ (worker.pc = "wait" /\ worker'.pc = "check") =>
              LET wait == worker.events[worker.i][1] - worker.elapsed IN
              /\ worker'.slept = IF wait > 0 THEN Some(wait) ELSE None
              /\ worker'.elapsed >= worker.elapsed + (IF wait > 0 THEN wait ELSE 0)
      ]_vars

\* the call of an event with a positive timestamp has just been issued,
\* after a sleep
C17_Witness ==
    /\ worker.pc = "top"
    /\ worker.i > 1
    /\ worker.slept # None
    /\ worker.events[worker.i - 1][1] > 0
    /\ worker.synth # <<>>
    /\ worker.synth[Len(worker.synth)].idx = worker.i - 1

\* C18: once the stop key has been pressed in a session that is recording,
\* the stop is under way: stop_recording_from_hotkey is waiting in the Qt
\* event loop or stop_recording is running.  Nothing but a click on Stop
\* Recording ends a session that is in neither case.
C18_StopKeyStopsSession ==
    (hotkey_triggered /\ recording) =>
        \/ \E k \in 1..Len(qt) : qt[k] = "stop_recording_from_hotkey"
        \/ mpc # "idle"

\* C19: after stop_macro has reached the worker of a run in progress, the
\* cancel flag of that run is set and no further synthesis call is issued.
C19_StopNeverLost ==
    worker.stopReq # None =>
        /\ worker.stop
        /\ Len(worker.synth) = worker.stopReq[1]

\* C20: a capture session reports at most one "Recording stopped"
\* notification, and exactly one once its stop has been carried out and the
\* Qt event loop has run what the stop scheduled.
C20_OneStoppedNotification ==
    /\ nStoppedNotes <= 1
    /\ (nTransitions = 1 /\ mpc = "idle" /\ qt = <<>> /\ ~aborted) => nStoppedNotes = 1

\* C2: every event of a supported kind survives serialize_event followed by
\* deserialize_event: the decoded event exists and equals the saved one.
C2_RoundTrip ==
    cpc = "decoded" => (cdec.ok /\ EventEq(cdec.val, cev))

====
